---- MODULE Spec2Model ----
(***************************************************************************)
(* Decker: the interactive loop of main.py and the file helpers of         *)
(* utils.py.  The conversation, the local files, the console and the       *)
(* position of the loop are the state; every read of the console (prompt   *)
(* line, yes/no answer) and every reply of the remote service is an input. *)
(***************************************************************************)
EXTENDS Integers, Sequences, FiniteSets, TLC

VARIABLES
    conversation_history,  \* main.py:130, sequence of [role, content]
    fs,                    \* the local files, by absolute path
    pc,                    \* position of main()'s loop
    console,               \* status lines printed by the last step
    valid_files,           \* stream_openai_response: files read this turn
    full_content,          \* stream_openai_response: accumulated stream text
    response_data,         \* main(): the AssistantResponse of this turn
    ci,                    \* main(): index in files_to_create
    ei,                    \* main(): index in files_to_edit
    requests               \* completion requests sent in this turn

vars == <<conversation_history, fs, pc, console, valid_files, full_content,
          response_data, ci, ei, requests>>

----------------------------------------------------------------------------
(* Bounds *)

MaxHist   == 4   \* a prompt line is read only while the history is this short
MaxOps    == 2   \* entries of files_to_create / files_to_edit
MaxLen    == 2   \* characters of a file (edit harness)
MaxSnip   == 1   \* characters of a snippet (edit harness)

----------------------------------------------------------------------------
(* Text: a sequence of characters *)

Alphabet == {"a", "b"}

SeqsUpTo(S, n) == UNION {[1..k -> S] : k \in 0..n}

SeqsFromTo(S, m, n) == UNION {[1..k -> S] : k \in m..n}

Strings(n) == SeqsUpTo(Alphabet, n)

\* str.find, scanning left to right from offset i; -1 when absent
RECURSIVE FindFrom(_, _, _)
FindFrom(sub, s, i) ==
    IF i + Len(sub) > Len(s) THEN -1
    ELSE IF SubSeq(s, i + 1, i + Len(sub)) = sub THEN i
    ELSE FindFrom(sub, s, i + 1)

\* a plausible slip: the rightmost occurrence (str.rfind)
RECURSIVE RFindFrom(_, _, _)
RFindFrom(sub, s, i) ==
    IF i < 0 THEN -1
    ELSE IF SubSeq(s, i + 1, i + Len(sub)) = sub THEN i
    ELSE RFindFrom(sub, s, i - 1)

\* content.replace(original_snippet, new_snippet, 1) with the last match
str_replace_last(s, old, new) ==
    LET i == RFindFrom(old, s, Len(s) - Len(old))
    IN  IF i = -1 THEN s
        ELSE SubSeq(s, 1, i) \o new \o SubSeq(s, i + Len(old) + 1, Len(s))

\* content.replace(original_snippet, new_snippet, 1)
str_replace_first(s, old, new) ==
    LET i == FindFrom(old, s, 0)
    IN  IF i = -1 THEN s
        ELSE SubSeq(s, 1, i) \o new \o SubSeq(s, i + Len(old) + 1, Len(s))

\* a plausible slip: "if content.find(original_snippet):" (-1 is truthy)
str_contains_find_truthy(sub, s) == FindFrom(sub, s, 0) # 0

\* original_snippet in content
str_contains(sub, s) == FindFrom(sub, s, 0) # -1

----------------------------------------------------------------------------
(* Paths *)

Cwd == "/w/"

RelPaths == {"a.py", "b.py"}

AbsPaths == {Cwd \o r : r \in RelPaths}

\* a path text that Path.resolve() rejects (embedded NUL): ValueError
BadPath == "nul.py"

\* a word of a message that does not look like a path
PlainWord == "hello"

\* utils.py normalize_path on the path texts of the model
normalize_path(path_str) ==
    IF path_str \in AbsPaths THEN path_str ELSE Cwd \o path_str

CanResolve(path_str) == path_str # BadPath

----------------------------------------------------------------------------
(* Files *)

Missing == [st |-> "missing", text |-> <<>>]
Denied  == [st |-> "denied",  text |-> <<>>]   \* exists, no permission
Binary  == [st |-> "binary",  text |-> <<>>]   \* exists, not UTF-8
TextFile(t) == [st |-> "text", text |-> t]

\* read_local_file: the exception raised, "none" when the read succeeds
ReadError(f) ==
    CASE f.st = "missing" -> "FileNotFoundError"
      [] f.st = "denied"  -> "PermissionError"
      [] f.st = "binary"  -> "UnicodeDecodeError"
      [] OTHER            -> "none"

IsOSError(e) == e \in {"FileNotFoundError", "PermissionError"}

\* read_local_file on a path text the OS resolves against the cwd
read_local_file(files, path) ==
    IF ~CanResolve(path) THEN [err |-> "ValueError", text |-> <<>>]
    ELSE LET f == files[normalize_path(path)]
         IN  [err |-> ReadError(f), text |-> f.text]

----------------------------------------------------------------------------
(* Messages *)

NoPath == ""

Msg(role, tag, path, text) ==
    [role |-> role, content |-> [tag |-> tag, path |-> path, text |-> text]]

SeedMsg == Msg("system", "system_PROMPT", NoPath, <<>>)

\* f"Content of file '{path}':\n\n{content}"
FileMsg(path, text) == Msg("system", "Content of file", path, text)

\* f"Created/updated file at '{file_path}'"
CreatedMsg(path) == Msg("assistant", "Created/updated file at", path, <<>>)

\* f"Applied diff edit to '{path}'"
AppliedMsg(path) == Msg("assistant", "Applied diff edit to", path, <<>>)

UserMsg(words) == Msg("user", "user", NoPath, words)

ReplyMsg(reply) == Msg("assistant", "reply", NoPath, <<reply>>)

\* file_marker in msg["content"], for file_marker = f"Content of file '{path}'"
MarkerIn(path, msg) ==
    msg.content.tag = "Content of file" /\ msg.content.path = path

\* any(file_marker in msg["content"] for msg in conversation_history)
has_marker(history, path) ==
    \E i \in 1..Len(history) : MarkerIn(path, history[i])

----------------------------------------------------------------------------
(* The structured response *)

\* Optional[List[...]]
None == [is_none |-> TRUE, items |-> <<>>]

Some(items) == [is_none |-> FALSE, items |-> items]

\* "if response_data.files_to_create:" -- neither None nor []
Truthy(opt) == ~opt.is_none /\ opt.items # <<>>

AssistantResponse(reply, creates, edits) ==
    [assistant_reply |-> reply, files_to_create |-> creates,
     files_to_edit |-> edits]

NoResponse == AssistantResponse("", None, None)

JsonErrorText == "Failed to parse JSON response from assistant"

ApiErrorText == "API error"

\* a plausible slip: the reply is the exception's own text, str(e)
ErrorResponseStrE(error_msg) ==
    AssistantResponse("Expecting value: line 1 column 1 (char 0)",
                      Some(<<>>), None)

\* AssistantResponse(assistant_reply=error_msg, files_to_create=[])
ErrorResponse(error_msg) == AssistantResponse(error_msg, Some(<<>>), None)

\* The accumulated text of the stream, by what json.loads makes of it
Text(kind, has_reply, creates, edits) ==
    [kind |-> kind, has_reply |-> has_reply, assistant_reply |-> "done",
     files_to_create |-> creates, files_to_edit |-> edits]

NoContent == Text("none", FALSE, None, None)

\* the stream ended, the text is not a JSON document
Garbage == Text("garbage", FALSE, None, None)

\* the stream broke off (remote-call failure)
Partial == Text("partial", FALSE, None, None)

\* a JSON document that is not an object
NotObject == Text("array", FALSE, None, None)

JsonObject(has_reply, creates, edits) ==
    Text("object", has_reply, creates, edits)

----------------------------------------------------------------------------
(* utils.py *)

\* guess_files_in_message: words are already split and stripped of quotes
RECURSIVE guess_files_in_message(_)
guess_files_in_message(user_message) ==
    IF user_message = <<>> THEN <<>>
    ELSE LET word == Head(user_message)
             rest == guess_files_in_message(Tail(user_message))
         IN  IF word # PlainWord /\ CanResolve(word)
             THEN <<normalize_path(word)>> \o rest
             ELSE rest

\* a plausible slip: "return True" after the try block
ensure_file_in_context_always(file_path, history, files) ==
    LET normalized_path == normalize_path(file_path)
        r == read_local_file(files, normalized_path)
    IN  IF r.err = "none"
        THEN [ok |-> TRUE, err |-> "none",
              history |-> IF has_marker(history, normalized_path)
                          THEN history
                          ELSE Append(history,
                                      FileMsg(normalized_path, r.text))]
        ELSE [ok |-> TRUE, err |-> "none", history |-> history]

\* ensure_file_in_context: ok is the value returned, err an exception that
\* "except OSError" lets through
ensure_file_in_context(file_path, history, files) ==
    LET normalized_path == normalize_path(file_path)
        r == read_local_file(files, normalized_path)
    IN  IF r.err = "none"
        THEN [ok |-> TRUE, err |-> "none",
              history |-> IF has_marker(history, normalized_path)
                          THEN history
                          ELSE Append(history,
                                      FileMsg(normalized_path, r.text))]
        ELSE IF IsOSError(r.err)
        THEN [ok |-> FALSE, err |-> "none", history |-> history]
        ELSE [ok |-> FALSE, err |-> r.err, history |-> history]

\* the history without the marker messages of a path
RECURSIVE DropMarkers(_, _)
DropMarkers(history, path) ==
    IF history = <<>> THEN <<>>
    ELSE IF MarkerIn(path, Head(history))
    THEN DropMarkers(Tail(history), path)
    ELSE <<Head(history)>> \o DropMarkers(Tail(history), path)

\* a plausible slip: the old content message of the file is replaced
create_file_replacing(path, content, history, files, require_confirmation, answer) ==
    IF require_confirmation /\ ~answer
    THEN [ok |-> FALSE, crashed |-> FALSE, history |-> history,
          files |-> files, console |-> <<"File creation cancelled.">>]
    ELSE IF files[normalize_path(path)].st = "denied"
    THEN [ok |-> FALSE, crashed |-> TRUE, history |-> history,
          files |-> files, console |-> <<"Traceback: create_file">>]
    ELSE [ok |-> TRUE, crashed |-> FALSE,
          history |-> DropMarkers(history, normalize_path(path))
                      \o <<CreatedMsg(path),
                           FileMsg(normalize_path(path), content)>>,
          files |-> [files EXCEPT ![normalize_path(path)] =
                                      TextFile(content)],
          console |-> <<"Created/updated file">>]

\* create_file; answer is the line read by confirm_action, when it is called
create_file(path, content, history, files, require_confirmation, answer) ==
    IF require_confirmation /\ ~answer
    THEN [ok |-> FALSE, crashed |-> FALSE, history |-> history,
          files |-> files, console |-> <<"File creation cancelled.">>]
    ELSE IF files[normalize_path(path)].st = "denied"
    THEN \* open(file_path, "w") raises PermissionError, caught nowhere
         [ok |-> FALSE, crashed |-> TRUE, history |-> history,
          files |-> files, console |-> <<"Traceback: create_file">>]
    ELSE [ok |-> TRUE, crashed |-> FALSE,
          history |-> history \o <<CreatedMsg(path),
                                   FileMsg(normalize_path(path), content)>>,
          files |-> [files EXCEPT ![normalize_path(path)] =
                                      TextFile(content)],
          console |-> <<"Created/updated file">>]

\* apply_diff_edit; create_file is called with require_confirmation left at
\* its default, True
apply_diff_edit(path, original_snippet, new_snippet, history, files, answer) ==
    LET r == read_local_file(files, path)
    IN  IF r.err = "FileNotFoundError"
        THEN [crashed |-> FALSE, history |-> history, files |-> files,
              console |-> <<"File not found for diff editing">>]
        ELSE IF r.err # "none"
        THEN [crashed |-> TRUE, history |-> history, files |-> files,
              console |-> <<"Traceback: apply_diff_edit">>]
        ELSE IF str_contains(original_snippet, r.text)
        THEN LET updated_content ==
                     str_replace_first(r.text, original_snippet, new_snippet)
                 c == create_file(path, updated_content, history, files,
                                  TRUE, answer)
             IN  IF c.crashed
                 THEN [crashed |-> TRUE, history |-> c.history,
                       files |-> c.files,
                       console |-> <<"Traceback: apply_diff_edit">>]
                 ELSE [crashed |-> FALSE,
                       history |-> Append(c.history, AppliedMsg(path)),
                       files |-> c.files,
                       console |-> Append(c.console, "Applied diff edit")]
        ELSE [crashed |-> FALSE, history |-> history, files |-> files,
              console |-> <<"Original snippet not found">>]

\* try_handle_add_command, for an input that starts with "/add "
try_handle_add_command(file_path, history, files) ==
    LET r == read_local_file(files, file_path)
    IN  IF r.err = "none"
        THEN [crashed |-> FALSE,
              history |-> Append(history, FileMsg(file_path, r.text)),
              console |-> <<"Added file">>]
        ELSE IF IsOSError(r.err)
        THEN [crashed |-> FALSE, history |-> history,
              console |-> <<"Could not add file">>]
        ELSE [crashed |-> TRUE, history |-> history,
              console |-> <<"Traceback: try_handle_add_command">>]

----------------------------------------------------------------------------
(* main.py, stream_openai_response *)

\* a plausible slip: the loop over potential_paths without the marker check
RECURSIVE gather_context_unchecked(_, _, _, _)
gather_context_unchecked(potential_paths, history, valid, files) ==
    IF potential_paths = <<>>
    THEN [err |-> "none", history |-> history, valid |-> valid]
    ELSE LET path == Head(potential_paths)
             r == read_local_file(files, path)
         IN  IF r.err = "none"
             THEN gather_context_unchecked(Tail(potential_paths),
                      Append(history, FileMsg(path, r.text)),
                      (path :> r.text) @@ valid, files)
             ELSE IF IsOSError(r.err)
             THEN gather_context_unchecked(Tail(potential_paths), history,
                                           valid, files)
             ELSE [err |-> r.err, history |-> history, valid |-> valid]

\* the loop over potential_paths (lines 147-161); err is an exception that
\* "except OSError" lets through
RECURSIVE gather_context(_, _, _, _)
gather_context(potential_paths, history, valid, files) ==
    IF potential_paths = <<>>
    THEN [err |-> "none", history |-> history, valid |-> valid]
    ELSE LET path == Head(potential_paths)
             r == read_local_file(files, path)
         IN  IF r.err = "none"
             THEN gather_context(Tail(potential_paths),
                      IF has_marker(history, path) THEN history
                      ELSE Append(history, FileMsg(path, r.text)),
                      (path :> r.text) @@ valid, files)
             ELSE IF IsOSError(r.err)
             THEN gather_context(Tail(potential_paths), history, valid, files)
             ELSE [err |-> r.err, history |-> history, valid |-> valid]

\* the loop over parsed_response["files_to_edit"] (lines 194-205)
RECURSIVE filter_edits(_, _, _, _)
filter_edits(edits, valid, history, files) ==
    IF edits = <<>> THEN [edits |-> <<>>, history |-> history]
    ELSE LET edit == Head(edits)
         IN  IF ~CanResolve(edit.path)
             THEN \* Path.resolve() raises ValueError: entry skipped
                  filter_edits(Tail(edits), valid, history, files)
             ELSE
             LET edit_abs_path == normalize_path(edit.path)
                 e == IF edit_abs_path \in DOMAIN valid
                      THEN [ok |-> TRUE, err |-> "none", history |-> history]
                      ELSE ensure_file_in_context(edit_abs_path, history,
                                                  files)
                 rest == filter_edits(Tail(edits), valid, e.history, files)
             IN  IF e.err = "none" /\ e.ok
                 THEN [edits |-> <<[edit EXCEPT !.path = edit_abs_path]>>
                                 \o rest.edits,
                       history |-> rest.history]
                 ELSE rest

\* stream_openai_response(user_message); outcome is what the remote service
\* does: "error" (the call or the stream raises) or the text it streams
stream_openai_response(user_message, outcome, history, files) ==
    LET potential_paths == guess_files_in_message(user_message)
        g == gather_context(potential_paths, history, <<>>, files)
        h1 == Append(g.history, UserMsg(user_message))
    IN  IF g.err # "none"
        THEN \* raised before the try block: leaves main()
             [crashed |-> TRUE, history |-> g.history, valid |-> g.valid,
              text |-> NoContent, response |-> NoResponse, sent |-> 0,
              console |-> <<"Traceback: stream_openai_response">>]
        ELSE IF outcome.kind = "partial"
        THEN [crashed |-> FALSE, history |-> h1, valid |-> g.valid,
              text |-> outcome, response |-> ErrorResponse(ApiErrorText),
              sent |-> 1, console |-> <<"API error">>]
        ELSE IF outcome.kind = "garbage"
        THEN [crashed |-> FALSE, history |-> h1, valid |-> g.valid,
              text |-> outcome, response |-> ErrorResponse(JsonErrorText),
              sent |-> 1, console |-> <<JsonErrorText>>]
        ELSE IF outcome.kind # "object"
        THEN \* TypeError on the item assignment, caught by "except Exception"
             [crashed |-> FALSE, history |-> h1, valid |-> g.valid,
              text |-> outcome, response |-> ErrorResponse(ApiErrorText),
              sent |-> 1, console |-> <<"API error">>]
        ELSE
        LET reply == IF outcome.has_reply THEN outcome.assistant_reply ELSE ""
            f == IF Truthy(outcome.files_to_edit)
                 THEN filter_edits(outcome.files_to_edit.items, g.valid, h1,
                                   files)
                 ELSE [edits |-> outcome.files_to_edit.items, history |-> h1]
            edits == IF outcome.files_to_edit.is_none THEN None
                     ELSE Some(f.edits)
        IN  [crashed |-> FALSE,
             history |-> Append(f.history, ReplyMsg(reply)),
             valid |-> g.valid, text |-> outcome,
             response |-> AssistantResponse(reply, outcome.files_to_create,
                                            edits),
             sent |-> 1, console |-> <<"Assistant>">>]

---------------------------------------------------------------------------------------------------------------------------------------------------
(* main.py, main *)

\* a.py in every condition a read can meet, b.py a readable text file
InitialFs ==
    {f \in [AbsPaths -> {Missing, Denied, Binary, TextFile(<<"a", "a">>),
                         TextFile(<<"a", "b">>)}] :
        /\ f["/w/a.py"] # TextFile(<<"a", "b">>)
        /\ f["/w/b.py"] = TextFile(<<"a", "b">>)}

Init ==
    /\ conversation_history = <<SeedMsg>>
    /\ fs \in InitialFs
    /\ pc = "PROMPTING"
    /\ console = <<"Welcome to Decker">>
    /\ valid_files = <<>>
    /\ full_content = NoContent
    /\ response_data = NoResponse
    /\ ci = 0
    /\ ei = 0
    /\ requests = 0

TurnLocals == <<valid_files, full_content, response_data, ci, ei, requests>>

\* back at line 249; the locals of the finished turn are dead and cleared
BackToPrompt ==
    /\ pc' = "PROMPTING"
    /\ valid_files' = <<>>
    /\ full_content' = NoContent
    /\ response_data' = NoResponse
    /\ ci' = 0
    /\ ei' = 0
    /\ requests' = 0

\* an exception leaves main(): the process ends with a traceback
Crash ==
    /\ pc' = "CRASHED"
    /\ UNCHANGED TurnLocals

\* line 254: an empty line
EmptyLine ==
    /\ pc = "PROMPTING"
    /\ UNCHANGED vars

\* line 257: exit / quit
Exit ==
    /\ pc = "PROMPTING"
    /\ pc' = "EXITED"
    /\ console' = <<"Goodbye!">>
    /\ UNCHANGED <<conversation_history, fs, TurnLocals>>

\* line 250: EOFError / KeyboardInterrupt at the prompt
Interrupt ==
    /\ pc = "PROMPTING"
    /\ pc' = "EXITED"
    /\ console' = <<"Exiting.">>
    /\ UNCHANGED <<conversation_history, fs, TurnLocals>>

\* line 262: "/add <file_path>"
AddCommand(file_path) ==
    /\ pc = "PROMPTING"
    /\ Len(conversation_history) <= MaxHist
    /\ LET r == try_handle_add_command(file_path, conversation_history, fs)
       IN  /\ conversation_history' = r.history
           /\ console' = r.console
           /\ pc' = IF r.crashed THEN "CRASHED" ELSE "PROMPTING"
    /\ UNCHANGED <<fs, TurnLocals>>

\* line 266: any other input is a model turn
ModelTurn(user_message, outcome) ==
    /\ pc = "PROMPTING"
    /\ Len(conversation_history) <= MaxHist
    /\ LET r == stream_openai_response(user_message, outcome,
                                       conversation_history, fs)
       IN  /\ conversation_history' = r.history
           /\ valid_files' = r.valid
           /\ full_content' = r.text
           /\ response_data' = r.response
           /\ requests' = r.sent
           /\ console' = r.console
           /\ pc' = IF r.crashed THEN "CRASHED" ELSE "RESPONDED"
    /\ UNCHANGED <<fs, ci, ei>>

\* lines 276-277: the edit batch is shown, or the turn is over
AfterCreates(printed) ==
    IF Truthy(response_data.files_to_edit)
    THEN /\ pc' = "CONFIRM_EDITS"
         /\ console' = Append(printed, "Proposed Edits")
         /\ ci' = 0
         /\ UNCHANGED <<valid_files, full_content, response_data, ei,
                        requests>>
    ELSE /\ BackToPrompt
         /\ console' = printed

\* lines 269, 276: main() looks at the response
Dispatch ==
    /\ pc = "RESPONDED"
    /\ IF Truthy(response_data.files_to_create)
       THEN /\ pc' = "CREATING"
            /\ ci' = 1
            /\ console' = <<"Preview of file to create">>
            /\ UNCHANGED <<valid_files, full_content, response_data, ei,
                           requests>>
       ELSE AfterCreates(<<>>)
    /\ UNCHANGED <<conversation_history, fs>>

\* a plausible slip: "continue" in place of "break" at line 273
NextCreateContinue(created, i, n) == i + 1

\* lines 270-273: the index of the next creation; past n when the loop ends
NextCreate(created, i, n) == IF created THEN i + 1 ELSE n + 1

\* lines 270-273: one create_file call, answer is the user's y/n
CreateFile(answer) ==
    /\ pc = "CREATING"
    /\ LET file_info == response_data.files_to_create.items[ci]
           n == Len(response_data.files_to_create.items)
           r == create_file(file_info.path, file_info.content,
                            conversation_history, fs, TRUE, answer)
           printed == IF r.ok THEN r.console
                      ELSE Append(r.console,
                                  "Skipping remaining file operations.")
       IN  /\ conversation_history' = r.history
           /\ fs' = r.files
           /\ IF r.crashed
              THEN Crash /\ console' = r.console
              ELSE IF NextCreate(r.ok, ci, n) <= n
              THEN /\ ci' = NextCreate(r.ok, ci, n)
                   /\ pc' = "CREATING"
                   /\ console' = Append(printed, "Preview of file to create")
                   /\ UNCHANGED <<valid_files, full_content, response_data,
                                  ei, requests>>
              ELSE AfterCreates(printed)

\* lines 278-282: the y/n answer for the whole edit batch
ConfirmEdits(answer) ==
    /\ pc = "CONFIRM_EDITS"
    /\ IF answer
       THEN /\ pc' = "EDITING"
            /\ ei' = 1
            /\ console' = <<>>
            /\ UNCHANGED <<valid_files, full_content, response_data, ci,
                           requests>>
       ELSE /\ BackToPrompt
            /\ console' = <<"Skipped applying diff edits.">>
    /\ UNCHANGED <<conversation_history, fs>>

\* lines 279-280: one apply_diff_edit call; answer is the y/n read by the
\* create_file it calls
ApplyDiffEdit(answer) ==
    /\ pc = "EDITING"
    /\ LET edit_info == response_data.files_to_edit.items[ei]
           n == Len(response_data.files_to_edit.items)
           r == apply_diff_edit(edit_info.path, edit_info.original_snippet,
                                edit_info.new_snippet, conversation_history,
                                fs, answer)
       IN  /\ conversation_history' = r.history
           /\ fs' = r.files
           /\ console' = r.console
           /\ IF r.crashed THEN Crash
              ELSE IF ei < n
              THEN /\ ei' = ei + 1
                   /\ UNCHANGED <<pc, valid_files, full_content,
                                  response_data, ci, requests>>
              ELSE BackToPrompt

----------------------------------------------------------------------------
(* Inputs of a session *)

\* "hello <NUL path>" names no file; the second message names a.py twice
UserMessages ==
    {<<PlainWord, BadPath>>, <<"/w/a.py", "a.py">>, <<"b.py">>}

AddPaths == {"a.py"}

CreateEntries ==
    {[path |-> "a.py", content |-> <<"b">>],
     [path |-> "/w/b.py", content |-> <<"a">>]}

EditEntries ==
    {[path |-> "a.py", original_snippet |-> <<"a">>, new_snippet |-> <<"b">>],
     [path |-> "/w/b.py", original_snippet |-> <<"b">>, new_snippet |-> <<>>],
     [path |-> BadPath, original_snippet |-> <<"a">>, new_snippet |-> <<>>]}

\* lists of at most MaxOps entries, no entry twice
Lists(S) ==
    {l \in SeqsUpTo(S, MaxOps) :
        \A i, k \in 1..Len(l) : i # k => l[i] # l[k]}

\* what the remote service does in a turn: creations alone, edits alone, or
\* creations followed by a batch of one edit
Outcomes ==
    {Partial, Garbage, NotObject, JsonObject(FALSE, None, None)}
    \cup {JsonObject(TRUE, Some(c), Some(<<>>)) : c \in Lists(CreateEntries)}
    \cup {JsonObject(TRUE, Some(<<>>), Some(e)) : e \in Lists(EditEntries)}
    \cup {JsonObject(TRUE, Some(c), Some(<<e>>)) :
              c \in Lists(CreateEntries) \ {<<>>}, e \in EditEntries}

Next ==
    \/ EmptyLine
    \/ Exit
    \/ Interrupt
    \/ \E file_path \in AddPaths : AddCommand(file_path)
    \/ \E user_message \in UserMessages, outcome \in Outcomes :
           ModelTurn(user_message, outcome)
    \/ Dispatch
    \/ \E answer \in BOOLEAN : CreateFile(answer)
    \/ \E answer \in BOOLEAN : ConfirmEdits(answer)
    \/ \E answer \in BOOLEAN : ApplyDiffEdit(answer)

Spec == Init /\ [][Next]_vars

----------------------------------------------------------------------------
(* The edit harness: one turn whose response is a batch of snippet edits of *)
(* a.py, over every short content and every short snippet                  *)

InitEdit ==
    /\ conversation_history = <<SeedMsg>>
    /\ fs \in {[p \in AbsPaths |->
                   IF p = "/w/a.py" THEN TextFile(t)
                   ELSE TextFile(<<"a", "b">>)] : t \in Strings(MaxLen)}
    /\ pc = "PROMPTING"
    /\ console = <<"Welcome to Decker">>
    /\ valid_files = <<>>
    /\ full_content = NoContent
    /\ response_data = NoResponse
    /\ ci = 0
    /\ ei = 0
    /\ requests = 0

SnippetEdits ==
    {[path |-> "a.py", original_snippet |-> o, new_snippet |-> n] :
        o \in Strings(MaxSnip), n \in Strings(MaxSnip)}

EditOutcomes ==
    {JsonObject(TRUE, Some(<<>>), Some(e)) :
        e \in SnippetEdits \X SnippetEdits}

NextEdit ==
    \/ \E outcome \in EditOutcomes :
           /\ Len(conversation_history) = 1
           /\ ModelTurn(<<PlainWord, BadPath>>, outcome)
    \/ Dispatch
    \/ \E answer \in BOOLEAN : ConfirmEdits(answer)
    \/ \E answer \in BOOLEAN : ApplyDiffEdit(answer)

SpecEdit == InitEdit /\ [][NextEdit]_vars

----------------------------------------------------------------------------
(* Properties *)

IsPrefix(h1, h2) == Len(h1) <= Len(h2) /\ SubSeq(h2, 1, Len(h1)) = h1

\* sub stands in s at offset i (counted from 0)
OccursAt(sub, s, i) ==
    /\ i + Len(sub) <= Len(s)
    /\ SubSeq(s, i + 1, i + Len(sub)) = sub

Occurs(sub, s) == \E i \in 0..Len(s) : OccursAt(sub, s, i)

MarkerCount(history, path) ==
    Cardinality({i \in 1..Len(history) : MarkerIn(path, history[i])})

Count(history, msg) ==
    Cardinality({i \in 1..Len(history) : history[i] = msg})

Printed(line, lines) == \E i \in 1..Len(lines) : lines[i] = line

CurrentEdit == response_data.files_to_edit.items[ei]

CurrentCreate == response_data.files_to_create.items[ci]

\* C1: the conversation history only grows: every step leaves the messages
\* already in it at their index, with their role and content
C1_HistoryOnlyGrows ==
    [][IsPrefix(conversation_history, conversation_history')]_vars

\* a session with a model turn, a confirmed creation and an applied edit
C1_Witness ==
    /\ pc = "PROMPTING"
    /\ \E i, j, k \in 1..Len(conversation_history) :
          /\ conversation_history[i].role = "user"
          /\ i < j /\ j < k
          /\ conversation_history[j].content.tag = "Created/updated file at"
          /\ conversation_history[k].content.tag = "Applied diff edit to"

\* C2 as claimed: at most one message contains the marker of a path
C2_AtMostOneMarker ==
    \A p \in AbsPaths : MarkerCount(conversation_history, p) <= 1

\* C2, amended: a model turn (context gathering and the validation of the
\* edits) appends at most one message with the marker of a path, and none
\* when a message of the history already contains it
C2_TurnAddsMarkerOnce ==
    [][(pc = "PROMPTING" /\ pc' \in {"RESPONDED", "CRASHED"}) =>
          \A p \in AbsPaths :
              MarkerCount(conversation_history', p) <=
                  IF MarkerCount(conversation_history, p) = 0 THEN 1
                  ELSE MarkerCount(conversation_history, p)]_vars

\* two turns named a.py, each twice; one message carries its marker
C2_Witness ==
    /\ pc = "RESPONDED"
    /\ Count(conversation_history, UserMsg(<<"/w/a.py", "a.py">>)) = 2
    /\ MarkerCount(conversation_history, "/w/a.py") = 1

\* C3 as claimed: once the batch is confirmed, every edit whose snippet
\* occurs in its file is persisted, no further answer deciding it
C3_ConfirmedBatchIsApplied ==
    [][(/\ pc = "EDITING"
        /\ fs[CurrentEdit.path].st = "text"
        /\ Occurs(CurrentEdit.original_snippet, fs[CurrentEdit.path].text))
       => \E i \in 0..Len(fs[CurrentEdit.path].text) :
             LET old == fs[CurrentEdit.path].text
             IN  fs'[CurrentEdit.path] =
                     TextFile(SubSeq(old, 1, i) \o CurrentEdit.new_snippet
                              \o SubSeq(old,
                                        i + Len(CurrentEdit.original_snippet)
                                          + 1, Len(old)))]_vars

\* C4: an edit whose snippet does not occur in its file leaves every file
\* as it was and appends no message
C4_MismatchChangesNothing ==
    [][(/\ pc = "EDITING"
        /\ fs[CurrentEdit.path].st = "text"
        /\ ~Occurs(CurrentEdit.original_snippet, fs[CurrentEdit.path].text))
       => /\ fs' = fs
          /\ conversation_history' = conversation_history]_vars

\* an edit was reported as a mismatch
C4_Witness ==
    /\ console = <<"Original snippet not found">>
    /\ fs["/w/a.py"].text # <<>>

\* C5: the content an edit writes is the old content with the leftmost
\* occurrence of the snippet replaced, every other character kept, the length
\* changed by len(new_snippet) - len(original_snippet); the old content is
\* the one the file has when the edit runs
C5_FirstOccurrenceReplaced ==
    [][(/\ pc = "EDITING"
        /\ \/ fs' # fs
           \/ Len(conversation_history') = Len(conversation_history) + 3)
       => LET old == fs[CurrentEdit.path].text
              new == fs'[CurrentEdit.path].text
              o == CurrentEdit.original_snippet
              n == CurrentEdit.new_snippet
          IN  /\ fs'[CurrentEdit.path].st = "text"
              /\ \A q \in AbsPaths \ {CurrentEdit.path} : fs'[q] = fs[q]
              /\ \E i \in 0..Len(old) :
                    /\ OccursAt(o, old, i)
                    /\ \A j \in 0..(i - 1) : ~OccursAt(o, old, j)
                    /\ SubSeq(new, 1, i) = SubSeq(old, 1, i)
                    /\ SubSeq(new, i + 1, i + Len(n)) = n
                    /\ SubSeq(new, i + Len(n) + 1, Len(new)) =
                           SubSeq(old, i + Len(o) + 1, Len(old))
              /\ Len(new) = Len(old) + Len(n) - Len(o)
              /\ conversation_history'[Len(conversation_history) + 2] =
                     FileMsg(CurrentEdit.path, new)]_vars

\* two edits of one batch were applied to a.py, the second to the content
\* the first one left: "aa" became "ba", then "bb"
C5_Witness ==
    /\ pc = "PROMPTING"
    /\ Count(conversation_history, AppliedMsg("/w/a.py")) = 2
    /\ Count(conversation_history, FileMsg("/w/a.py", <<"b", "a">>)) = 1
    /\ Count(conversation_history, FileMsg("/w/a.py", <<"b", "b">>)) = 1
    /\ fs["/w/a.py"] = TextFile(<<"b", "b">>)

\* C6: creations are applied one at a time in list order; a declined
\* creation writes nothing, appends nothing and ends the creations of the
\* turn, and the edit batch, when there is one, is shown for confirmation
C6_DeclineStopsCreations ==
    [][pc = "CREATING" =>
          /\ pc' = "CREATING" =>
                /\ ci' = ci + 1
                /\ ~Printed("File creation cancelled.", console')
          /\ ~Printed("File creation cancelled.", console') /\ pc' # "CRASHED"
                => /\ fs' = [fs EXCEPT ![normalize_path(CurrentCreate.path)] =
                                 TextFile(CurrentCreate.content)]
                   /\ Len(conversation_history') =
                          Len(conversation_history) + 2
          /\ Printed("File creation cancelled.", console') =>
                /\ fs' = fs
                /\ conversation_history' = conversation_history
                /\ pc' = IF Truthy(response_data.files_to_edit)
                         THEN "CONFIRM_EDITS" ELSE "PROMPTING"
                /\ Truthy(response_data.files_to_edit) =>
                       Printed("Proposed Edits", console')]_vars

\* the second creation of a turn was declined after the first was written,
\* and the edit batch is on display
C6_Witness ==
    /\ pc = "CONFIRM_EDITS"
    /\ console = <<"File creation cancelled.",
                   "Skipping remaining file operations.", "Proposed Edits">>
    /\ Len(response_data.files_to_create.items) = 2
    /\ conversation_history[Len(conversation_history) - 1] =
           CreatedMsg(response_data.files_to_create.items[1].path)
    /\ fs[normalize_path(response_data.files_to_create.items[1].path)] =
           TextFile(response_data.files_to_create.items[1].content)

\* C7 as claimed: no error met while gathering context or applying an edit
\* ends the process
C7_NoErrorEndsTheProcess ==
    ~(/\ pc = "CRASHED"
      /\ console \in {<<"Traceback: stream_openai_response">>,
                      <<"Traceback: apply_diff_edit">>})

\* no entry: None and [] alike
Empty(opt) == opt.items = <<>>

\* C8: when the stream ends with a text that is not a JSON document, the
\* response carries the fixed diagnostic and no creation or edit, one request
\* was sent, and the turn ends without a file changed
C8_BadJsonFailsSoftly ==
    [][/\ full_content' = Garbage =>
             /\ pc' = "RESPONDED"
             /\ response_data'.assistant_reply = JsonErrorText
             /\ Empty(response_data'.files_to_create)
             /\ Empty(response_data'.files_to_edit)
             /\ requests' = 1
             /\ fs' = fs
       /\ full_content = Garbage =>
             /\ pc' = "PROMPTING"
             /\ fs' = fs
             /\ conversation_history' = conversation_history]_vars

\* a turn whose stream was not JSON has returned
C8_Witness ==
    /\ pc = "RESPONDED"
    /\ full_content = Garbage
    /\ conversation_history[Len(conversation_history)].role = "user"

\* the indices of the edit entries that pass the validation
KeptEdits(raw) ==
    {i \in 1..Len(raw) :
        /\ raw[i].path # BadPath
        /\ \/ normalize_path(raw[i].path) \in DOMAIN valid_files
           \/ fs[normalize_path(raw[i].path)].st = "text"}

\* C9: the edit entries of a decoded response are the entries of the
\* document whose path was read during context gathering or is readable, in
\* their order and with the normalized path; no other entry is returned
C9_EditsAreValidated ==
    (pc = "RESPONDED" /\ full_content.kind = "object"
        /\ Truthy(full_content.files_to_edit)) =>
       LET raw == full_content.files_to_edit.items
           kept == response_data.files_to_edit.items
           keep == KeptEdits(raw)
       IN  /\ Len(kept) = Cardinality(keep)
           /\ \A k \in 1..Len(kept) :
                 LET i == CHOOSE i \in keep :
                              Cardinality({j \in keep : j < i}) = k - 1
                 IN  kept[k] =
                         [raw[i] EXCEPT !.path = normalize_path(raw[i].path)]

\* of two entries one was dropped; the other, not read during context
\* gathering, was admitted by ensure_file_in_context
C9_Witness ==
    /\ pc = "RESPONDED"
    /\ full_content.kind = "object"
    /\ Len(full_content.files_to_edit.items) = 2
    /\ Len(response_data.files_to_edit.items) = 1
    /\ response_data.files_to_edit.items[1].path \notin DOMAIN valid_files
    /\ full_content.files_to_edit.items[1].path # BadPath
    /\ full_content.files_to_edit.items[2].path # BadPath

\* C10 as claimed: "Applied diff edit" is recorded only in a step that wrote
\* the file and appended create_file's two messages before it
C10_AppliedOnlyIfWritten ==
    [][(/\ Len(conversation_history') > Len(conversation_history)
        /\ conversation_history'[Len(conversation_history')].content.tag =
               "Applied diff edit to")
       => /\ Len(conversation_history') = Len(conversation_history) + 3
          /\ conversation_history'[Len(conversation_history) + 1] =
                 CreatedMsg(CurrentEdit.path)
          /\ conversation_history'[Len(conversation_history) + 2] =
                 FileMsg(CurrentEdit.path, fs'[CurrentEdit.path].text)]_vars

====
